---- MODULE Spec2Model ----
(***************************************************************************)
(* FixedLSPClient of src/core/markdown_lsp_analyzer.py: one client, one    *)
(* Marksman server process, several caller threads.                        *)
(*                                                                         *)
(* A send_request submits the coroutine _send to the client's event loop.  *)
(* The loop thread runs _send up to its first await without interruption   *)
(* (liveness check, id allocation, write to stdin); from there on the      *)
(* coroutine reads the server's stdout through asyncio.to_thread, one      *)
(* read per step, so the reads of different coroutines interleave.  The    *)
(* caller thread meanwhile waits in future.result(self.timeout).           *)
(*                                                                         *)
(* The output stream is modelled in symbols, two per frame:                *)
(*   H  the header block "Content-Length: n\r\n\r\n" of frame f            *)
(*   B  the n characters of the JSON body of frame f                       *)
(* A step of the header loop takes one symbol (the characters of a symbol  *)
(* stay together).  start_server opens the pipes with text=True, so the    *)
(* reader sees the stream after universal-newlines translation: each       *)
(* "\r\n" arrives as "\n", the header loop's test for "\r\n\r\n" finds     *)
(* nothing in a translated header block, and the loop ends only at end of  *)
(* file.  The codec section models the same reader character by character. *)
(*                                                                         *)
(* The environment: start_server and initialize are called once per        *)
(* client, as FixedMarkdownAnalyzer.initialize does; send_request may be   *)
(* called by any thread at any time.  The server answers requests in the   *)
(* order it read them, may leave them unanswered and may exit.  A timeout  *)
(* may strike whenever a caller waits for a coroutine that has not         *)
(* returned.                                                               *)
(***************************************************************************)
EXTENDS Integers, Sequences, FiniteSets, TLC

\* ---- bounds ----
NumThreads == 2
MaxCalls == 2
MaxNotifications == 1
MaxTextLen == 2
MaxFiles == 2
MaxSections == 5
MaxLevel == 3
MaxLines == 3

Threads == 1..NumThreads
Ids == 1..MaxCalls

VARIABLES
    process,      \* self.process: "none" | "alive" | "exited" (poll() is not None)
    request_id,   \* self.request_id
    initialized,  \* self.initialized
    startResult,  \* what start_server returned: "not_called" | "ok" | "failed"
    stdin,        \* frames written to self.process.stdin, in order
    stdout,       \* symbols the server wrote that no reader has consumed yet
    answered,     \* how many of the requests on stdin the server has answered
    calls,        \* per request id: the coroutine _send and its caller
    th,           \* per caller thread: where it is
    refused,      \* "none", or what start_server had returned when a send_request
                  \* was last refused with "LSP server no está ejecutándose"
    sdSteps,      \* the steps shutdown() has taken so far, in order
    pushed,       \* how many messages of its own the server has pushed
    text,         \* codec: the text inside the params of a message, in code points
    written,      \* codec: the characters written to stdin for it
    decoded,      \* codec: what _read_lsp_response_async took from the stream
    roundtrip,    \* codec: what came of reading back a frame that was written
    plugin,       \* LMStudioPluginFixed: analyzer, is_initialized, initialization_error
    analysis_cache, \* FixedMarkdownAnalyzer.analysis_cache: the files it holds an analysis of
    analysis,     \* what the last analyze_file_complete came to
    http,         \* the last response of POST /analyze or POST /batch-analyze
    sections,     \* _process_section_hierarchy: the levels of the flat list of sections
    cursor,       \* how many of them the loop has handled
    stack,        \* its stack, as positions in the list
    result,       \* the top-level sections it returns, as positions
    subsections,  \* per section, its subsections, as positions
    lines,        \* _extract_complete_structure: what kind each line of the content is
    tableScan,    \* the loop over the lines that collects tables
    listScan      \* the loop over the lines that collects lists

\* the server's own messages; the codec seen on its own
notes == <<pushed>>
codec == <<text, written, decoded, roundtrip>>

\* the analyzer above the client and the HTTP service above the analyzer
service == <<plugin, analysis_cache, analysis, http>>

\* MarkdownContentExtractor and _extract_complete_structure, on their own
extractor == <<sections, cursor, stack, result, subsections, lines, tableScan, listScan>>

\* what lies outside the request/response traffic
ext == <<sdSteps, notes, codec, service, extractor>>

vars == <<process, request_id, initialized, startResult, stdin, stdout,
          answered, calls, th, refused, ext>>

NoRet == [kind |-> "none", id |-> 0]

NoCall == [co |-> "unsent", cl |-> 0, junk |-> FALSE, ret |-> NoRet,
           caller |-> "none"]

IdleThread == [pc |-> "idle", op |-> "none", call |-> 0]

\* ---- FrameCodec side of the server: a response frame for request f ----
Frame(f, kind) ==
    << [t |-> "H", f |-> f, kind |-> "hdr"],
       [t |-> "B", f |-> f, kind |-> kind] >>

\* `"error" in response`
HasError(ret) == ret.kind \in {"error", "closed", "malformed", "writefail"}

\* `not self.process or self.process.poll() is not None` is false
\* (ProcessRunningNoPoll: the same check without poll())
ProcessRunningNoPoll(p) == p # "none"
ProcessRunning(p) == p = "alive"

\* `self.request_id += 1`
\* (NextRequestIdStuck: the increment left out)
NextRequestIdStuck(rid) == rid
NextRequestId(rid) == rid + 1

NotDecoded == [outcome |-> "none", content_length |-> 0, chars |-> 0]

NoPlugin == [startup |-> "not_run", analyzer |-> FALSE, analyzer_initialize |-> "not_called",
             is_initialized |-> FALSE, initialization_error |-> "none"]

NoAnalysis == [file |-> "none", outcome |-> "none", raw_content |-> FALSE,
               paragraphs |-> 0, word_count |-> 0, headers |-> << >>,
               lsp_symbols |-> << >>]

NoHttp == [endpoint |-> "none", file |-> "none", code |-> 0, status |-> "none",
           data |-> NoAnalysis, error |-> "none", matched |-> 0, max_files |-> 0,
           files_processed |-> 0]

NoTableScan == [i |-> 0, in_table |-> FALSE, table_rows |-> << >>, table_start |-> 0,
                tables |-> << >>]

NoListScan == [i |-> 0, in_list |-> FALSE, list_items |-> << >>, list_start |-> 0,
               list_type |-> "None", lists |-> << >>]

NoMessage == [kind |-> "none", text |-> << >>]
NotRead == [m |-> NoMessage, extra |-> FALSE, outcome |-> "none", got |-> NoMessage]

Init ==
    /\ process = "none"
    /\ request_id = 1
    /\ initialized = FALSE
    /\ startResult = "not_called"
    /\ stdin = << >>
    /\ stdout = << >>
    /\ answered = 0
    /\ calls = [i \in Ids |-> NoCall]
    /\ th = [t \in Threads |-> IdleThread]
    /\ refused = "none"
    /\ sdSteps = << >>
    /\ pushed = 0
    /\ text = << >>
    /\ written = << >>
    /\ decoded = NotDecoded
    /\ roundtrip = NotRead
    /\ plugin = NoPlugin
    /\ analysis_cache = {}
    /\ analysis = NoAnalysis
    /\ http = NoHttp
    /\ sections = << >>
    /\ cursor = 0
    /\ stack = << >>
    /\ result = << >>
    /\ subsections = << >>
    /\ lines = << >>
    /\ tableScan = NoTableScan
    /\ listScan = NoListScan

\* start_server: version probe, Popen, one second of grace, poll.
\* FixedMarkdownAnalyzer.initialize is its only caller, once per client.
StartOutcomes == {"missing", "probe_failed", "exited_in_grace", "ok"}

start_server(t) ==
    /\ th[t].pc = "idle"
    /\ startResult = "not_called"
    /\ \E o \in StartOutcomes :
          /\ process' = CASE o = "ok" -> "alive"
                          [] o = "exited_in_grace" -> "exited"
                          [] OTHER -> "none"
          /\ startResult' = IF o = "ok" THEN "ok" ELSE "failed"
    /\ UNCHANGED <<request_id, initialized, stdin, stdout, answered, calls, th,
                   refused,
                   ext>>

\* ---- send_request: the part of _send the loop runs before its first await ----
\* Liveness check (raises RuntimeError to the caller), request with the next
\* id, `self.request_id += 1`, write and flush; a failing write is caught and
\* makes the coroutine return {"error": {"code": -2, ...}}.
Send(t, m, op) ==
    IF ~ProcessRunning(process)
    THEN /\ refused' = startResult
         /\ UNCHANGED <<process, request_id, initialized, startResult, stdin,
                        stdout, answered, calls, th>>
    ELSE LET i == request_id
             wrote == process = "alive"
         IN  /\ i <= MaxCalls
             /\ request_id' = NextRequestId(request_id)
             /\ stdin' = IF wrote
                         THEN Append(stdin, [kind |-> "request", id |-> i,
                                             method |-> m, ready |-> initialized])
                         ELSE stdin
             /\ calls' = [calls EXCEPT ![i] =
                   [co |-> IF wrote THEN "header" ELSE "done",
                    cl |-> 0, junk |-> FALSE,
                    ret |-> IF wrote THEN NoRet ELSE [kind |-> "writefail", id |-> 0],
                    caller |-> "waiting"]]
             /\ th' = [th EXCEPT ![t] = [pc |-> "wait", op |-> op, call |-> i]]
             /\ UNCHANGED <<process, initialized, startResult, stdout, answered,
                            refused>>

\* send_request("textDocument/documentSymbol", ...), as get_document_symbols issues it
send_request(t) ==
    /\ th[t].pc = "idle"
    /\ Send(t, "textDocument/documentSymbol", "send_request")
    /\ UNCHANGED ext

\* initialize, up to the point where it waits for the initialize response.
\* FixedMarkdownAnalyzer.initialize calls it once per client.
InitializeCalled ==
    \/ \E k \in 1..Len(stdin) : stdin[k].method = "initialize"
    \/ \E t \in Threads : th[t].op = "initialize"

initialize(t) ==
    /\ th[t].pc = "idle"
    /\ ~InitializeCalled
    /\ Send(t, "initialize", "initialize")
    /\ UNCHANGED ext

\* ---- _read_lsp_response_async ----
\* Popen(..., text=True) wraps the server's stdout in an io.TextIOWrapper with
\* newline=None, universal newlines: every "\r\n" and every "\r" the server
\* writes reaches read() as "\n".  The header block "Content-Length: n\r\n\r\n"
\* arrives as "Content-Length: n\n\n" (symbol h).
UniversalNewlines(x) == IF x.t = "H" THEN [x EXCEPT !.t = "h"] ELSE x

\* `header.endswith("\r\n\r\n")`
EndsHeader(x) == x.t = "H"

\* What the header loop has read: junk says that characters which did not
\* end the header went into `header`.  A line of it starts with
\* "Content-Length:" only when nothing precedes it on the line, so after
\* junk the loop finds no length (content_length is None).
ContentLengthOf(c, x) == IF c.junk THEN 0 ELSE x.f

Finish(c, ret) == [c EXCEPT !.co = "done", !.ret = ret, !.cl = 0, !.junk = FALSE]

\* `if not char: raise ConnectionError("Conexión LSP cerrada")`, which _send
\* catches and returns as {"error": {"code": -2, ...}}
\* (EndOfFileEndsHeader: end of file taken for the end of a response)
EndOfFileEndsHeader(c) == Finish(c, [kind |-> "result", id |-> 0])
EndOfFile(c) == Finish(c, [kind |-> "closed", id |-> 0])

\* one iteration of `while True: char = await asyncio.to_thread(read, 1)`
read_header(i) ==
    /\ calls[i].co = "header"
    /\ IF stdout = << >>
       THEN \* read returns '' only at end of file; otherwise it blocks
            /\ process = "exited"
            /\ calls' = [calls EXCEPT ![i] = EndOfFile(@)]
            /\ UNCHANGED stdout
       ELSE LET x == UniversalNewlines(Head(stdout))
                c == calls[i]
                cl == ContentLengthOf(c, x)
            IN  /\ stdout' = Tail(stdout)
                /\ calls' = [calls EXCEPT ![i] =
                      IF EndsHeader(x)
                      THEN IF cl = 0
                           THEN Finish(c, [kind |-> "malformed", id |-> 0])
                           ELSE [c EXCEPT !.co = "body", !.cl = cl]
                      ELSE [c EXCEPT !.junk = TRUE]]
    /\ UNCHANGED <<process, request_id, initialized, startResult, stdin, answered, th,
                   refused,
                   ext>>

\* `content = await asyncio.to_thread(read, content_length)`, `json.loads(content)`:
\* the code after the header loop.  No character that read() returns is a
\* "\r", so the loop ends only by raising and read_body is never enabled
\* (TypeOK); it is no step of any specification below.
\* The declared length fits the body of its own frame; taken from another
\* place of the stream the characters parse only if they happen to be a
\* whole body of the same length.
BodyOutcomes(c, x) ==
    IF x.t = "B"
    THEN IF x.f = c.cl
         THEN {[kind |-> x.kind, id |-> x.f]}
         ELSE {[kind |-> x.kind, id |-> x.f], [kind |-> "malformed", id |-> 0]}
    ELSE {[kind |-> "malformed", id |-> 0]}

read_body(i) ==
    /\ calls[i].co = "body"
    /\ IF stdout = << >>
       THEN /\ process = "exited"
            /\ calls' = [calls EXCEPT ![i] = Finish(@, [kind |-> "malformed", id |-> 0])]
            /\ UNCHANGED stdout
       ELSE /\ stdout' = Tail(stdout)
            /\ \E r \in BodyOutcomes(calls[i], Head(stdout)) :
                  calls' = [calls EXCEPT ![i] = Finish(@, r)]
    /\ UNCHANGED <<process, request_id, initialized, startResult, stdin, answered, th,
                   refused,
                   ext>>

\* ---- _run_async: future.result(self.timeout) ----
\* `if "error" in response: return False` of initialize
InitAccepts(ret) == ~HasError(ret)

\* The coroutine has returned: send_request hands its dictionary to the caller.
\* initialize goes on from there: an error response makes it return False;
\* otherwise it writes the initialized notification (a write to the pipe of an
\* exited process raises, and initialize returns False) and sets the flag.
run_async_return(t) ==
    LET i == th[t].call
        ret == calls[i].ret
    IN  /\ th[t].pc = "wait"
        /\ calls[i].co = "done"
        /\ calls[i].caller = "waiting"
        /\ calls' = [calls EXCEPT ![i].caller = "returned"]
        /\ IF th[t].op = "initialize"
           THEN IF InitAccepts(ret) /\ process = "alive"
                THEN /\ stdin' = Append(stdin, [kind |-> "notification", id |-> 0,
                                                method |-> "initialized",
                                                ready |-> initialized])
                     /\ initialized' = TRUE
                     /\ th' = [th EXCEPT ![t] = IdleThread]
                ELSE /\ th' = [th EXCEPT ![t] = IdleThread]
                     /\ UNCHANGED <<stdin, initialized>>
           ELSE /\ th' = [th EXCEPT ![t] = IdleThread]
                /\ UNCHANGED <<stdin, initialized>>
        /\ UNCHANGED <<process, request_id, startResult, stdout, answered, refused,
                   ext>>

\* The deadline passes first: concurrent.futures.TimeoutError reaches the
\* caller (initialize catches it and returns False).  The future is not
\* cancelled, so the coroutine stays where it is.
\* (run_async_timeout_swallowed: initialize going on after the timeout as if
\* the response had come)
run_async_timeout_swallowed(t) ==
    LET i == th[t].call
    IN  /\ th[t].pc = "wait"
        /\ calls[i].co # "done"
        /\ calls[i].caller = "waiting"
        /\ calls' = [calls EXCEPT ![i].caller = "timedout"]
        /\ th' = [th EXCEPT ![t] = IdleThread]
        /\ IF th[t].op = "initialize" /\ process = "alive"
           THEN /\ stdin' = Append(stdin, [kind |-> "notification", id |-> 0,
                                           method |-> "initialized",
                                           ready |-> initialized])
                /\ initialized' = TRUE
           ELSE UNCHANGED <<stdin, initialized>>
        /\ UNCHANGED <<process, request_id, startResult, stdout, answered, refused,
                       ext>>

run_async_timeout(t) ==
    LET i == th[t].call
    IN  /\ th[t].pc = "wait"
        /\ calls[i].co # "done"
        /\ calls[i].caller = "waiting"
        /\ calls' = [calls EXCEPT ![i].caller = "timedout"]
        /\ th' = [th EXCEPT ![t] = IdleThread]
        /\ UNCHANGED <<process, request_id, initialized, startResult, stdin,
                       stdout, answered, refused,
                   ext>>

\* ---- the server process ----
Requests == SelectSeq(stdin, LAMBDA m : m.kind = "request")

\* The server answers the requests in the order it read them, each with a
\* result or with a JSON-RPC error object, or leaves them unanswered.
ServerRespond ==
    /\ process = "alive"
    /\ answered < Len(Requests)
    /\ \E kind \in {"result", "error"} :
          stdout' = stdout \o Frame(Requests[answered + 1].id, kind)
    /\ answered' = answered + 1
    /\ UNCHANGED <<process, request_id, initialized, startResult, stdin, calls, th,
                   refused,
                   ext>>

\* The server process exits; what it wrote stays readable in the pipe.
ServerExit ==
    /\ process = "alive"
    /\ process' = "exited"
    /\ UNCHANGED <<request_id, initialized, startResult, stdin, stdout, answered,
                   calls, th, refused,
                   ext>>

Next ==
    \/ \E t \in Threads : start_server(t)
    \/ \E t \in Threads : send_request(t)
    \/ \E t \in Threads : initialize(t)
    \/ \E i \in Ids : read_header(i)
    \/ \E t \in Threads : run_async_return(t)
    \/ \E t \in Threads : run_async_timeout(t)
    \/ ServerRespond
    \/ ServerExit

Spec == Init /\ [][Next]_vars

\* The event loop, its worker threads and the timers of the waiting callers
\* keep running; nothing obliges the server to answer or to exit.
FairSpec ==
    /\ Spec
    /\ \A i \in Ids : WF_vars(read_header(i))
    /\ \A t \in Threads : WF_vars(run_async_return(t)) /\ WF_vars(run_async_timeout(t))

\* Callers that take turns: a send_request is issued only while no other
\* caller is waiting for its own.
NoCallerWaiting == \A u \in Threads : th[u].pc = "idle"

send_request_in_turn(t) == NoCallerWaiting /\ send_request(t)

initialize_in_turn(t) == NoCallerWaiting /\ initialize(t)

NextSeq ==
    \/ \E t \in Threads : start_server(t)
    \/ \E t \in Threads : send_request_in_turn(t)
    \/ \E t \in Threads : initialize_in_turn(t)
    \/ \E i \in Ids : read_header(i)
    \/ \E t \in Threads : run_async_return(t)
    \/ \E t \in Threads : run_async_timeout(t)
    \/ ServerRespond
    \/ ServerExit

SeqSpec == Init /\ [][NextSeq]_vars

TypeOK ==
    /\ process \in {"none", "alive", "exited"}
    /\ request_id \in 1..(MaxCalls + 1)
    /\ initialized \in BOOLEAN
    /\ startResult \in {"not_called", "ok", "failed"}
    /\ answered \in 0..MaxCalls
    /\ \A t \in Threads : th[t].pc \in {"idle", "wait"}
    /\ \A i \in Ids : calls[i].co \in {"unsent", "header", "done"}

\* ---- a write that fails ----
\* The server exits after _send has found it alive (`poll() is None`) and
\* before the request is written: the id is taken, `stdin.write` or `flush`
\* raises BrokenPipeError, `except Exception` makes the coroutine return
\* {"error": {"code": -2, ...}}.
\* (send_request_broken_pipe_keeps_id: the id given back when the write fails)
send_request_broken_pipe_keeps_id(t) ==
    LET i == request_id
    IN  /\ th[t].pc = "idle"
        /\ ProcessRunning(process)
        /\ i <= MaxCalls
        /\ process' = "exited"
        /\ calls' = [calls EXCEPT ![i] =
              [co |-> "done", cl |-> 0, junk |-> FALSE,
               ret |-> [kind |-> "writefail", id |-> 0], caller |-> "waiting"]]
        /\ th' = [th EXCEPT ![t] = [pc |-> "wait", op |-> "send_request", call |-> i]]
        /\ UNCHANGED <<request_id, initialized, startResult, stdin, stdout, answered,
                       refused, ext>>

send_request_broken_pipe(t) ==
    LET i == request_id
    IN  /\ th[t].pc = "idle"
        /\ ProcessRunning(process)
        /\ i <= MaxCalls
        /\ process' = "exited"
        /\ request_id' = NextRequestId(request_id)
        /\ calls' = [calls EXCEPT ![i] =
              [co |-> "done", cl |-> 0, junk |-> FALSE,
               ret |-> [kind |-> "writefail", id |-> 0], caller |-> "waiting"]]
        /\ th' = [th EXCEPT ![t] = [pc |-> "wait", op |-> "send_request", call |-> i]]
        /\ UNCHANGED <<initialized, startResult, stdin, stdout, answered, refused, ext>>

NextBrokenPipe ==
    \/ Next
    \/ \E t \in Threads : send_request_broken_pipe(t)

BrokenPipeSpec == Init /\ [][NextBrokenPipe]_vars

\* ---- shutdown ----
\* Called once, at the end of the client's life (FixedMarkdownAnalyzer.shutdown).
\* `if self.process and self.process.poll() is None:` then
\* `self.send_request("shutdown", {})`; with no live process it does nothing.
shutdown(t) ==
    /\ th[t].pc = "idle"
    /\ sdSteps = << >>
    /\ ProcessRunning(process)
    /\ Send(t, "shutdown", "shutdown")
    /\ sdSteps' = <<"shutdown_request">>
    /\ UNCHANGED <<notes, codec, service, extractor>>

\* send_request("shutdown") has returned (whatever the response says):
\* `self.send_notification("exit", {})`.  Writing to the pipe of an exited
\* process raises, which the outer `except Exception` catches.
shutdown_request_return(t) ==
    LET i == th[t].call
    IN  /\ th[t].pc = "wait"
        /\ th[t].op = "shutdown"
        /\ calls[i].co = "done"
        /\ calls[i].caller = "waiting"
        /\ calls' = [calls EXCEPT ![i].caller = "returned"]
        /\ IF process = "alive"
           THEN /\ stdin' = Append(stdin, [kind |-> "notification", id |-> 0,
                                           method |-> "exit", ready |-> initialized])
                /\ sdSteps' = Append(sdSteps, "exit_notification")
                /\ th' = [th EXCEPT ![t].pc = "grace_wait"]
           ELSE /\ th' = [th EXCEPT ![t].pc = "except"]
                /\ UNCHANGED <<stdin, sdSteps>>
        /\ UNCHANGED <<process, request_id, initialized, startResult, stdout,
                       answered, refused, notes, codec, service, extractor>>

\* send_request("shutdown") raised concurrent.futures.TimeoutError: the outer
\* `except Exception` catches it; the exit notification is not sent.
shutdown_request_timeout(t) ==
    LET i == th[t].call
    IN  /\ th[t].pc = "wait"
        /\ th[t].op = "shutdown"
        /\ calls[i].co # "done"
        /\ calls[i].caller = "waiting"
        /\ calls' = [calls EXCEPT ![i].caller = "timedout"]
        /\ th' = [th EXCEPT ![t].pc = "except"]
        /\ UNCHANGED <<process, request_id, initialized, startResult, stdin,
                       stdout, answered, refused, sdSteps, notes, codec, service, extractor>>

\* `self.process.wait(timeout=5)`, reached after the exit notification.  The
\* shutdown request returns only when its read has hit end of file, with the
\* server gone and the exit notification failing, so this wait is never
\* reached and is no step of the specifications below.
\* It returns once the process has exited;
\* after five seconds it raises subprocess.TimeoutExpired, which is not the
\* concurrent.futures.TimeoutError of the inner handler and so reaches the
\* outer `except Exception`.
shutdown_wait(t) ==
    /\ th[t].pc = "grace_wait"
    /\ IF process = "exited"
       THEN /\ sdSteps' = Append(sdSteps, "wait_returned")
            /\ th' = [th EXCEPT ![t] = IdleThread]
       ELSE /\ sdSteps' = Append(sdSteps, "wait_expired")
            /\ th' = [th EXCEPT ![t].pc = "except"]
    /\ UNCHANGED <<process, request_id, initialized, startResult, stdin, stdout,
                   answered, calls, refused, notes, codec, service, extractor>>

\* `self.process.terminate()` of the outer handler: SIGTERM to a process that
\* is still running, nothing for one that has exited.
shutdown_terminate(t) ==
    /\ th[t].pc = "except"
    /\ sdSteps' = Append(sdSteps, IF process = "alive" THEN "terminate"
                                                      ELSE "terminate_noop")
    /\ th' = [th EXCEPT ![t].pc = "final_wait"]
    /\ UNCHANGED <<process, request_id, initialized, startResult, stdin, stdout,
                   answered, calls, refused, notes, codec, service, extractor>>

\* `self.process.wait()` after terminate(): no timeout, it returns when the
\* process has exited.
shutdown_final_wait(t) ==
    /\ th[t].pc = "final_wait"
    /\ process = "exited"
    /\ sdSteps' = Append(sdSteps, "returned")
    /\ th' = [th EXCEPT ![t] = IdleThread]
    /\ UNCHANGED <<process, request_id, initialized, startResult, stdin, stdout,
                   answered, calls, refused, notes, codec, service, extractor>>

\* the callers of send_request and initialize, as opposed to shutdown's own call
call_return(t) == th[t].op # "shutdown" /\ run_async_return(t)

call_timeout(t) == th[t].op # "shutdown" /\ run_async_timeout(t)

\* The life of one client as FixedMarkdownAnalyzer drives it: start_server,
\* initialize, shutdown.
NextShutdown ==
    \/ \E t \in Threads : start_server(t)
    \/ \E t \in Threads : initialize(t)
    \/ \E i \in Ids : read_header(i)
    \/ \E t \in Threads : call_return(t)
    \/ \E t \in Threads : call_timeout(t)
    \/ \E t \in Threads : shutdown(t)
    \/ \E t \in Threads : shutdown_request_return(t)
    \/ \E t \in Threads : shutdown_request_timeout(t)
    \/ \E t \in Threads : shutdown_terminate(t)
    \/ \E t \in Threads : shutdown_final_wait(t)
    \/ ServerRespond
    \/ ServerExit

ShutdownSpec == Init /\ [][NextShutdown]_vars

\* The client's own steps keep running; the server is obliged neither to
\* answer nor to exit, not even after SIGTERM.
FairShutdownSpec ==
    /\ ShutdownSpec
    /\ \A i \in Ids : WF_vars(read_header(i))
    /\ \A t \in Threads :
          /\ WF_vars(call_return(t)) /\ WF_vars(call_timeout(t))
          /\ WF_vars(shutdown_request_return(t))
          /\ WF_vars(shutdown_request_timeout(t))
          /\ WF_vars(shutdown_terminate(t))
          /\ WF_vars(shutdown_final_wait(t))

\* ---- send_notification ----
\* open_document -> send_notification("textDocument/didOpen", ...).  It runs on
\* the calling thread, not on the event loop, and takes no lock:
\* `self.process.stdin.write(notification_content)` on a text stream that two
\* threads may be writing at once.  The characters of the frame reach the
\* stream in two parts, and what other writers write in between lands between
\* them.  (A missing or exited process makes the call raise before anything is
\* written; open_document returns False.)
NotificationPart(kind) ==
    [kind |-> kind, id |-> 0, method |-> "textDocument/didOpen", ready |-> initialized]

NotificationsBegun ==
    Len(SelectSeq(stdin, LAMBDA m : m.kind = "notification_begin"))

\* (send_notification_with_id: a notification that takes a request id)
send_notification_with_id(t) ==
    /\ th[t].pc = "idle"
    /\ process = "alive"
    /\ NotificationsBegun < MaxNotifications
    /\ stdin' = Append(stdin, NotificationPart("notification_begin"))
    /\ th' = [th EXCEPT ![t] = [pc |-> "write", op |-> "send_notification", call |-> 0]]
    /\ request_id' = request_id + 1
    /\ UNCHANGED <<process, initialized, startResult, stdout, answered,
                   calls, refused, ext>>

send_notification(t) ==
    /\ th[t].pc = "idle"
    /\ process = "alive"
    /\ NotificationsBegun < MaxNotifications
    /\ stdin' = Append(stdin, NotificationPart("notification_begin"))
    /\ th' = [th EXCEPT ![t] = [pc |-> "write", op |-> "send_notification", call |-> 0]]
    /\ UNCHANGED <<process, request_id, initialized, startResult, stdout, answered,
                   calls, refused, ext>>

\* the rest of the frame and `self.process.stdin.flush()`; with the process
\* gone the flush raises and the frame stays incomplete
notification_written(t) ==
    /\ th[t].pc = "write"
    /\ stdin' = IF process = "alive"
                THEN Append(stdin, NotificationPart("notification_end"))
                ELSE stdin
    /\ th' = [th EXCEPT ![t] = IdleThread]
    /\ UNCHANGED <<process, request_id, initialized, startResult, stdout, answered,
                   calls, refused, ext>>

\* ---- what the server sends of its own accord ----
DidOpens == SelectSeq(stdin, LAMBDA m : m.kind = "notification_end")

\* the frames the server pushes are numbered after those of the responses
PushedFrame(n) == MaxCalls + n

\* After a didOpen the server pushes a message of its own: a notification
\* (textDocument/publishDiagnostics) or a request to the client.
ServerPush ==
    /\ process = "alive"
    /\ pushed < Len(DidOpens)
    /\ \E kind \in {"notification", "server_request"} :
          stdout' = stdout \o Frame(PushedFrame(pushed + 1), kind)
    /\ pushed' = pushed + 1
    /\ UNCHANGED <<process, request_id, initialized, startResult, stdin, answered,
                   calls, th, refused, sdSteps, codec, service, extractor>>

\* A faulty server answers a request with a frame whose header block has no
\* Content-Length line.
ServerRespondNoLength ==
    /\ process = "alive"
    /\ answered < Len(Requests)
    /\ stdout' = stdout \o << [t |-> "H", f |-> 0, kind |-> "hdr"],
                              [t |-> "B", f |-> Requests[answered + 1].id,
                               kind |-> "result"] >>
    /\ answered' = answered + 1
    /\ UNCHANGED <<process, request_id, initialized, startResult, stdin, calls, th,
                   refused, ext>>

\* One client that is started, initialized and sent notifications.
NextNotify ==
    \/ \E t \in Threads : start_server(t)
    \/ \E t \in Threads : initialize(t)
    \/ \E t \in Threads : send_notification(t)
    \/ \E t \in Threads : notification_written(t)
    \/ \E i \in Ids : read_header(i)
    \/ \E t \in Threads : run_async_return(t)
    \/ \E t \in Threads : run_async_timeout(t)
    \/ ServerRespond
    \/ ServerPush
    \/ ServerExit

NotifySpec == Init /\ [][NextNotify]_vars

\* Documents being analysed: open_document and get_document_symbols from any
\* thread, a server that pushes messages and may answer with a broken frame.
NextDocument ==
    \/ \E t \in Threads : start_server(t)
    \/ \E t \in Threads : initialize(t)
    \/ \E t \in Threads : send_request(t)
    \/ \E t \in Threads : send_notification(t)
    \/ \E t \in Threads : notification_written(t)
    \/ \E i \in Ids : read_header(i)
    \/ \E t \in Threads : run_async_return(t)
    \/ \E t \in Threads : run_async_timeout(t)
    \/ ServerRespond
    \/ ServerRespondNoLength
    \/ ServerPush
    \/ ServerExit

DocumentSpec == Init /\ [][NextDocument]_vars

\* ---- the codec on its own: characters and bytes ----
\* Strings are sequences of Unicode code points.  The text inside params:
\* a  "  \n  é  €  and a character outside the basic plane.
Chars == {97, 34, 10, 233, 8364, 128512}

Texts == UNION {[1..n -> Chars] : n \in 0..MaxTextLen}

\* what the text-mode pipe (Popen(text=True), UTF-8) makes of one character
Utf8Bytes(c) == IF c < 128 THEN 1 ELSE IF c < 2048 THEN 2 ELSE IF c < 65536 THEN 3 ELSE 4

\* the bytes of a string: one pair <<k, b>> for byte b of character k
Utf8Length(s) ==
    Cardinality({kb \in (1..Len(s)) \X (1..4) : kb[2] <= Utf8Bytes(s[kb[1]])})

Hex(d) == IF d < 10 THEN 48 + d ELSE 87 + d

\* \uXXXX
UEscape(n) ==
    <<92, 117, Hex(n \div 4096), Hex((n \div 256) % 16), Hex((n \div 16) % 16), Hex(n % 16)>>

\* One character of a string under json.dumps with its default
\* ensure_ascii=True: quote, backslash and control characters escaped, every
\* character outside printable ASCII as \uXXXX, as a surrogate pair beyond
\* the basic plane.
\* (JsonEscapeNotAscii: as with ensure_ascii=False)
JsonEscapeNotAscii(c) ==
    IF c = 34 THEN <<92, 34>>
    ELSE IF c = 92 THEN <<92, 92>>
    ELSE IF c = 10 THEN <<92, 110>>
    ELSE IF c = 13 THEN <<92, 114>>
    ELSE IF c = 9 THEN <<92, 116>>
    ELSE IF c < 32 THEN UEscape(c)
    ELSE <<c>>

JsonEscape(c) ==
    IF c = 34 THEN <<92, 34>>
    ELSE IF c = 92 THEN <<92, 92>>
    ELSE IF c = 10 THEN <<92, 110>>
    ELSE IF c = 13 THEN <<92, 114>>
    ELSE IF c = 9 THEN <<92, 116>>
    ELSE IF c >= 32 /\ c <= 126 THEN <<c>>
    ELSE IF c < 65536 THEN UEscape(c)
    ELSE UEscape(55296 + ((c - 65536) \div 1024)) \o UEscape(56320 + ((c - 65536) % 1024))

RECURSIVE EscapeAll(_)
EscapeAll(s) == IF s = << >> THEN << >> ELSE JsonEscape(Head(s)) \o EscapeAll(Tail(s))

JsonString(s) == <<34>> \o EscapeAll(s) \o <<34>>

\* {"jsonrpc": "2.0", "id": 1, "method": "m", "params": {"text":
RequestPrefix ==
    <<123, 34, 106, 115, 111, 110, 114, 112, 99, 34, 58, 32, 34, 50, 46, 48, 34,
      44, 32, 34, 105, 100, 34, 58, 32, 49, 44, 32, 34, 109, 101, 116, 104, 111,
      100, 34, 58, 32, 34, 109, 34, 44, 32, 34, 112, 97, 114, 97, 109, 115, 34,
      58, 32, 123, 34, 116, 101, 120, 116, 34, 58, 32>>

\* {"jsonrpc": "2.0", "method": "m", "params": {"text":
NotificationPrefix ==
    <<123, 34, 106, 115, 111, 110, 114, 112, 99, 34, 58, 32, 34, 50, 46, 48, 34,
      44, 32, 34, 109, 101, 116, 104, 111, 100, 34, 58, 32, 34, 109, 34, 44, 32,
      34, 112, 97, 114, 97, 109, 115, 34, 58, 32, 123, 34, 116, 101, 120, 116,
      34, 58, 32>>

\* }}
ParamsSuffix == <<125, 125>>

\* `request_json = json.dumps(request)`, `notification_json = json.dumps(notification)`
request_json(s) == RequestPrefix \o JsonString(s) \o ParamsSuffix

notification_json(s) == NotificationPrefix \o JsonString(s) \o ParamsSuffix

RECURSIVE Decimal(_)
Decimal(n) == IF n < 10 THEN <<48 + n>> ELSE Decimal(n \div 10) \o <<48 + (n % 10)>>

\* "Content-Length: " and "\r\n\r\n"
ContentLengthField == <<67, 111, 110, 116, 101, 110, 116, 45, 76, 101, 110, 103, 116, 104, 58, 32>>
HeaderTerminator == <<13, 10, 13, 10>>

\* f"Content-Length: {len(request_json)}\r\n\r\n{request_json}": len() counts
\* characters
request_content(json) ==
    ContentLengthField \o Decimal(Len(json)) \o HeaderTerminator \o json

\* ---- the server's side of the codec ----
\* The server writes its JSON in UTF-8 without escaping characters beyond
\* ASCII, and declares the length of the body in bytes, as the protocol asks.
ServerJsonEscape(c) ==
    IF c = 34 THEN <<92, 34>>
    ELSE IF c = 92 THEN <<92, 92>>
    ELSE IF c = 10 THEN <<92, 110>>
    ELSE IF c < 32 THEN UEscape(c)
    ELSE <<c>>

RECURSIVE ServerEscapeAll(_)
ServerEscapeAll(s) ==
    IF s = << >> THEN << >> ELSE ServerJsonEscape(Head(s)) \o ServerEscapeAll(Tail(s))

\* {"jsonrpc":"2.0","id":1,"result":
ResponsePrefix ==
    <<123, 34, 106, 115, 111, 110, 114, 112, 99, 34, 58, 34, 50, 46, 48, 34, 44,
      34, 105, 100, 34, 58, 49, 44, 34, 114, 101, 115, 117, 108, 116, 34, 58>>

\* {"jsonrpc":"2.0","id":2,"result":null}
NextResponse ==
    <<123, 34, 106, 115, 111, 110, 114, 112, 99, 34, 58, 34, 50, 46, 48, 34, 44,
      34, 105, 100, 34, 58, 50, 44, 34, 114, 101, 115, 117, 108, 116, 34, 58,
      110, 117, 108, 108, 125>>

ResponseJson(s) == ResponsePrefix \o <<34>> \o ServerEscapeAll(s) \o <<34, 125>>

ServerFrame(json) ==
    ContentLengthField \o Decimal(Utf8Length(json)) \o HeaderTerminator \o json

\* what the server writes before it exits: the response whose result is the
\* text, then the response to the next request
Stream(s) == ServerFrame(ResponseJson(s)) \o ServerFrame(NextResponse)

\* What read() returns of it, character by character: the text layer of
\* Popen(text=True) decodes UTF-8 and, with newline=None, turns "\r\n" and
\* "\r" into "\n".
\* (0 marks the "\n" of a "\r\n", which is dropped; no message holds a NUL)
Translated(s) ==
    [k \in 1..Len(s) |->
        IF s[k] = 10 /\ k > 1 /\ s[k - 1] = 13 THEN 0
        ELSE IF s[k] = 13 THEN 10 ELSE s[k]]

TextRead(s) == SelectSeq(Translated(s), LAMBDA c : c # 0)

\* ---- _read_lsp_response_async on that stream ----
\* `header.endswith("\r\n\r\n")` after k characters
EndsWithTerminator(s, k) == k >= 4 /\ SubSeq(s, k - 3, k) = HeaderTerminator

HasHeaderEnd(s) == \E k \in 4..Len(s) : EndsWithTerminator(s, k)

\* the header loop stops at the first such place
HeaderEnd(s) ==
    CHOOSE k \in 4..Len(s) :
        EndsWithTerminator(s, k) /\ \A j \in 4..(k - 1) : ~EndsWithTerminator(s, j)

RECURSIVE ParseInt(_)
ParseInt(d) ==
    IF d = << >> THEN 0
    ELSE 10 * ParseInt(SubSeq(d, 1, Len(d) - 1)) + (d[Len(d)] - 48)

\* `int(line.split(':')[1].strip())` of the line that starts with
\* "Content-Length:" (the header block here has that one line)
content_length(header) ==
    ParseInt(SelectSeq(SubSeq(header, Len(ContentLengthField), Len(header) - 4),
                       LAMBDA c : c # 32))

Min(a, b) == IF a <= b THEN a ELSE b

\* The header loop, then `read(content_length)`: that many characters of the
\* text stream, or what is left of it.  A loop that reaches the end of the
\* stream raises ConnectionError with everything consumed.
ReadResponse(s) ==
    IF HasHeaderEnd(s)
    THEN LET h == HeaderEnd(s)
             n == content_length(SubSeq(s, 1, h))
         IN  [outcome |-> "response", content_length |-> n, chars |-> h + Min(n, Len(s) - h)]
    ELSE [outcome |-> "closed", content_length |-> 0, chars |-> Len(s)]

\* ---- the codec's actions ----
CodecInit ==
    /\ process = "none"
    /\ request_id = 1
    /\ initialized = FALSE
    /\ startResult = "not_called"
    /\ stdin = << >>
    /\ stdout = << >>
    /\ answered = 0
    /\ calls = [i \in Ids |-> NoCall]
    /\ th = [t \in Threads |-> IdleThread]
    /\ refused = "none"
    /\ sdSteps = << >>
    /\ pushed = 0
    /\ text \in Texts
    /\ written = << >>
    /\ decoded = NotDecoded
    /\ roundtrip = NotRead
    /\ plugin = NoPlugin
    /\ analysis_cache = {}
    /\ analysis = NoAnalysis
    /\ http = NoHttp
    /\ sections = << >>
    /\ cursor = 0
    /\ stack = << >>
    /\ result = << >>
    /\ subsections = << >>
    /\ lines = << >>
    /\ tableScan = NoTableScan
    /\ listScan = NoListScan

client == <<process, request_id, initialized, startResult, stdin, stdout,
            answered, calls, th, refused, sdSteps, notes, service, extractor>>

\* what send_request writes for params holding the text
encode_request ==
    /\ written # request_content(request_json(text))
    /\ written' = request_content(request_json(text))
    /\ UNCHANGED <<client, text, decoded, roundtrip>>

\* what send_notification writes for them
encode_notification ==
    /\ written # request_content(notification_json(text))
    /\ written' = request_content(notification_json(text))
    /\ UNCHANGED <<client, text, decoded, roundtrip>>

\* one call of _read_lsp_response_async on the server's stream
read_lsp_response ==
    /\ decoded = NotDecoded
    /\ decoded' = ReadResponse(TextRead(Stream(text)))
    /\ UNCHANGED <<client, text, written, roundtrip>>

\* ---- a frame read back: encode, then _read_lsp_response_async ----
MessageKinds == {"request", "notification", "response"}

\* The frame of a message: a request or a notification as send_request and
\* send_notification write it, a response as the server writes it.
Encoded(kind, s) ==
    CASE kind = "request" -> request_content(request_json(s))
      [] kind = "notification" -> request_content(notification_json(s))
      [] OTHER -> ServerFrame(ResponseJson(s))

\* "Content-Type: a\r\n", a header line ahead of Content-Length
ExtraHeader == <<67, 111, 110, 116, 101, 110, 116, 45, 84, 121, 112, 101, 58, 32, 97, 13, 10>>

ContentLengthName == SubSeq(ContentLengthField, 1, Len(ContentLengthField) - 1)

StartsWith(s, p, w) == p + Len(w) - 1 <= Len(s) /\ SubSeq(s, p, p + Len(w) - 1) = w

\* `header.split('\r\n')`: where the lines of the header block begin
LineStarts(h) ==
    {1} \cup {k + 2 : k \in {j \in 1..(Len(h) - 2) : h[j] = 13 /\ h[j + 1] = 10}}

\* `if line.startswith('Content-Length:')`, the first such line
LengthLines(h) == {p \in LineStarts(h) : StartsWith(h, p, ContentLengthName)}

FirstLengthLine(h) == CHOOSE p \in LengthLines(h) : \A q \in LengthLines(h) : p <= q

LineEnd(h, p) ==
    CHOOSE k \in p..Len(h) :
        /\ h[k] = 13
        /\ \A j \in p..(k - 1) : h[j] # 13

\* `int(line.split(':')[1].strip())`; -1 stands for the ValueError raised when
\* no line has the field
LengthField(h) ==
    IF LengthLines(h) = {} THEN -1
    ELSE LET p == FirstLengthLine(h)
         IN  ParseInt(SelectSeq(SubSeq(h, p + Len(ContentLengthName), LineEnd(h, p) - 1),
                                LAMBDA c : c # 32))

HexVal(c) == IF c <= 57 THEN c - 48 ELSE c - 87

Hex4(s, p) == 4096 * HexVal(s[p]) + 256 * HexVal(s[p + 1]) + 16 * HexVal(s[p + 2]) + HexVal(s[p + 3])

\* the characters of a JSON string, as json.loads reads them: escapes undone,
\* a surrogate pair joined
RECURSIVE Unescape(_)
Unescape(s) ==
    IF s = << >> THEN << >>
    ELSE IF s[1] # 92 \/ Len(s) < 2 THEN <<s[1]>> \o Unescape(Tail(s))
    ELSE IF s[2] = 117
         THEN LET hi == Hex4(s, 3)
                  paired == /\ hi >= 55296 /\ hi < 56320
                            /\ Len(s) >= 12 /\ s[7] = 92 /\ s[8] = 117
                            /\ Hex4(s, 9) >= 56320 /\ Hex4(s, 9) < 57344
              IN  IF paired
                  THEN <<65536 + (hi - 55296) * 1024 + (Hex4(s, 9) - 56320)>>
                           \o Unescape(SubSeq(s, 13, Len(s)))
                  ELSE <<hi>> \o Unescape(SubSeq(s, 7, Len(s)))
         ELSE <<CASE s[2] = 110 -> 10 [] s[2] = 114 -> 13 [] s[2] = 116 -> 9 [] OTHER -> s[2]>>
                  \o Unescape(SubSeq(s, 3, Len(s)))

Between(b, prefix, suffix) ==
    SubSeq(b, Len(prefix) + 1, Len(b) - Len(suffix))

Wraps(b, prefix, suffix) ==
    /\ Len(b) >= Len(prefix) + Len(suffix)
    /\ StartsWith(b, 1, prefix)
    /\ SubSeq(b, Len(b) - Len(suffix) + 1, Len(b)) = suffix

\* `json.loads(content)` for the bodies above; anything else is not JSON
\* (json.JSONDecodeError)
json_loads(b) ==
    CASE Wraps(b, RequestPrefix \o <<34>>, <<34>> \o ParamsSuffix) ->
            [kind |-> "request",
             text |-> Unescape(Between(b, RequestPrefix \o <<34>>, <<34>> \o ParamsSuffix))]
      [] Wraps(b, NotificationPrefix \o <<34>>, <<34>> \o ParamsSuffix) ->
            [kind |-> "notification",
             text |-> Unescape(Between(b, NotificationPrefix \o <<34>>, <<34>> \o ParamsSuffix))]
      [] Wraps(b, ResponsePrefix \o <<34>>, <<34, 125>>) ->
            [kind |-> "response",
             text |-> Unescape(Between(b, ResponsePrefix \o <<34>>, <<34, 125>>))]
      [] OTHER -> [kind |-> "invalid", text |-> << >>]

\* _read_lsp_response_async on a stream that holds one frame and then ends
ReadMessage(s) ==
    IF ~HasHeaderEnd(s) THEN [outcome |-> "closed", got |-> NoMessage]
    ELSE LET h == HeaderEnd(s)
             n == LengthField(SubSeq(s, 1, h))
         IN  IF n < 0 THEN [outcome |-> "no_content_length", got |-> NoMessage]
             ELSE LET m == json_loads(SubSeq(s, h + 1, h + Min(n, Len(s) - h)))
                  IN  IF m.kind = "invalid"
                      THEN [outcome |-> "not_json", got |-> NoMessage]
                      ELSE [outcome |-> "message", got |-> m]

\* the frame of a message, with or without a further header line, comes back
\* through the text-mode pipe and is read
read_back(kind, extra) ==
    /\ roundtrip = NotRead
    /\ LET frame == IF extra THEN ExtraHeader \o Encoded(kind, text) ELSE Encoded(kind, text)
           r == ReadMessage(TextRead(frame))
       IN  roundtrip' = [m |-> [kind |-> kind, text |-> text], extra |-> extra,
                         outcome |-> r.outcome, got |-> r.got]
    /\ UNCHANGED <<client, text, written, decoded>>

NextCodec ==
    \/ encode_request
    \/ encode_notification
    \/ read_lsp_response
    \/ \E kind \in MessageKinds, extra \in BOOLEAN : read_back(kind, extra)

CodecSpec == CodecInit /\ [][NextCodec]_vars

\* ---- FixedMarkdownAnalyzer and the HTTP service ----
\* The files a request may name: two markdown files with content, one that is
\* empty, one that does not exist.  A file is the sequence of its blocks, each
\* a header or a paragraph of text with a word in it.
Files == {"doc.md", "note.md", "empty.md", "missing.md"}

Content(f) ==
    CASE f = "doc.md" -> <<"header", "text">>
      [] f = "note.md" -> <<"text">>
      [] OTHER -> << >>

\* `file_path.exists()`
PathExists(f) == f # "missing.md"

\* what `await x` does with what the analyzer's methods return: they are
\* plain functions, and a bool, a MarkdownStructure, a dict or None is not
\* awaitable (TypeError)
Awaitables == {"coroutine", "Future", "Task"}

Await(returned) == IF returned \in Awaitables THEN "value" ELSE "TypeError"

\* FixedMarkdownAnalyzer.initialize has run to its end: start_server has
\* failed, or the client's initialize has returned or given up
AnalyzerInitializeDone ==
    \/ startResult = "failed"
    \/ /\ startResult = "ok"
       /\ \E k \in 1..Len(stdin) :
             /\ stdin[k].kind = "request" /\ stdin[k].method = "initialize"
             /\ calls[stdin[k].id].caller \in {"returned", "timedout"}

\* what it returns: True with LSP, True without, True after an exception
\* (analyzer_initialize_strict: False when the LSP client is not initialized)
analyzer_initialize_strict == initialized

analyzer_initialize ==
    CASE startResult = "ok" /\ initialized -> TRUE
      [] startResult = "ok" -> TRUE
      [] OTHER -> TRUE

\* startup of the service: `self.analyzer = FixedMarkdownAnalyzer()`, then
\* `if await self.analyzer.initialize()`, inside try/except Exception
startup ==
    /\ plugin.startup = "not_run"
    /\ AnalyzerInitializeDone
    /\ LET r == analyzer_initialize
           awaited == Await("bool")
       IN  plugin' = [startup |-> "done", analyzer |-> TRUE,
                      analyzer_initialize |-> IF r THEN "True" ELSE "False",
                      is_initialized |-> awaited = "value" /\ r,
                      initialization_error |-> IF awaited = "value"
                                               THEN IF r THEN "none" ELSE "LSP no disponible"
                                               ELSE awaited]
    /\ UNCHANGED <<process, request_id, initialized, startResult, stdin, stdout,
                   answered, calls, th, refused, sdSteps, notes, codec, extractor,
                   analysis_cache, analysis, http>>

HeaderBlocks(c) == SelectSeq(c, LAMBDA b : b = "header")

\* the MarkdownStructure of a file
Analysed(f, symbols) ==
    [file |-> f, outcome |-> "returned", raw_content |-> Content(f) # << >>,
     paragraphs |-> Len(Content(f)), word_count |-> Len(Content(f)),
     headers |-> HeaderBlocks(Content(f)), lsp_symbols |-> symbols]

Raised(f, exception) == [NoAnalysis EXCEPT !.file = f, !.outcome = exception]

\* `if self.lsp_client.initialized:`
\* (UseLspAlways: the LSP part entered whatever the flag says)
UseLspAlways(flag) == TRUE

UseLsp(flag) == flag

\* analyze_file_complete: read_markdown_file raises FileNotFoundError, an
\* empty file raises ValueError; otherwise the content is extracted, the LSP
\* symbols are fetched if the client is initialized (the thread goes on to
\* open_document), and the analysis is stored in the cache and returned.
AnalyzeFileComplete(t, f, op) ==
    CASE ~PathExists(f) ->
            /\ analysis' = Raised(f, "FileNotFoundError")
            /\ UNCHANGED <<analysis_cache, th>>
      [] PathExists(f) /\ Content(f) = << >> ->
            /\ analysis' = Raised(f, "ValueError")
            /\ UNCHANGED <<analysis_cache, th>>
      [] PathExists(f) /\ Content(f) # << >> /\ UseLsp(initialized) ->
            /\ analysis' = Raised(f, "lsp")
            /\ th' = [th EXCEPT ![t] = [pc |-> "open_document", op |-> op, call |-> 0]]
            /\ UNCHANGED analysis_cache
      [] OTHER ->
            /\ analysis' = Analysed(f, << >>)
            /\ analysis_cache' = analysis_cache \cup {f}
            /\ UNCHANGED th

\* a call of the analyzer from outside the service
analyze_file_complete(t, f) ==
    /\ th[t].pc = "idle"
    /\ AnalyzeFileComplete(t, f, "analyze_file_complete")
    /\ UNCHANGED <<process, request_id, initialized, startResult, stdin, stdout,
                   answered, calls, refused, sdSteps, notes, codec, extractor, plugin, http>>

\* The LSP part of analyze_file_complete.  open_document writes the didOpen
\* notification (send_notification; a failure makes it return False),
\* get_document_symbols sends the documentSymbol request and waits
\* (send_request), and whatever comes of it, a list or [], ends the analysis.
\* No run gets here: the flag is never set.
open_document(t) ==
    /\ th[t].pc = "open_document"
    /\ stdin' = IF process = "alive"
                THEN stdin \o <<NotificationPart("notification_begin"),
                                NotificationPart("notification_end")>>
                ELSE stdin
    /\ th' = [th EXCEPT ![t].pc = "get_document_symbols"]
    /\ UNCHANGED <<process, request_id, initialized, startResult, stdout, answered,
                   calls, refused, ext>>

get_document_symbols(t) ==
    /\ th[t].pc = "get_document_symbols"
    /\ IF ProcessRunning(process)
       THEN Send(t, "textDocument/documentSymbol", th[t].op)
       ELSE /\ th' = [th EXCEPT ![t].pc = "symbols"]
            /\ UNCHANGED <<process, request_id, initialized, startResult, stdin,
                           stdout, answered, calls, refused>>
    /\ UNCHANGED ext

document_symbols(t) ==
    LET i == th[t].call
        got == th[t].pc = "wait" /\ calls[i].co = "done" /\ calls[i].ret.kind = "result"
    IN  /\ th[t].op \in {"analyze_file_complete", "analyze_complete", "batch_analyze"}
        /\ th[t].pc \in {"wait", "symbols"}
        /\ analysis' = Analysed(analysis.file, IF got THEN <<"symbol">> ELSE << >>)
        /\ analysis_cache' = analysis_cache \cup {analysis.file}
        /\ calls' = IF th[t].pc = "wait"
                    THEN [calls EXCEPT ![i].caller =
                             IF calls[i].co = "done" THEN "returned" ELSE "timedout"]
                    ELSE calls
        /\ th' = [th EXCEPT ![t] = IdleThread]
        /\ UNCHANGED <<process, request_id, initialized, startResult, stdin, stdout,
                       answered, refused, sdSteps, notes, codec, extractor, plugin, http>>

\* AnalysisResponse(status="error", ...) of the handlers' `except Exception`
\* (ErrorResponseAsSuccess: the same response with status "success")
ErrorResponseAsSuccess(endpoint, f, error) ==
    [NoHttp EXCEPT !.endpoint = endpoint, !.file = f, !.code = 200,
                   !.status = "success", !.error = error]

ErrorResponse(endpoint, f, error) ==
    [NoHttp EXCEPT !.endpoint = endpoint, !.file = f, !.code = 200,
                   !.status = "error", !.error = error]

\* POST /analyze.  Without an analyzer HTTPException(503) is raised before the
\* try and answered by the exception handler.  Inside the try, a missing file
\* raises HTTPException(404), which `except Exception` catches; otherwise
\* `await analyzer.analyze_file_complete(...)` runs the analysis and then
\* awaits what it returned.
analyze_complete(t, f) ==
    /\ th[t].pc = "idle"
    /\ plugin.startup = "done"
    /\ IF ~plugin.analyzer
       THEN /\ http' = [NoHttp EXCEPT !.endpoint = "analyze", !.file = f, !.code = 503,
                                      !.status = "error", !.error = "HTTPException"]
            /\ UNCHANGED <<analysis, analysis_cache, th>>
       ELSE IF ~PathExists(f)
       THEN /\ http' = ErrorResponse("analyze", f, "HTTPException 404")
            /\ UNCHANGED <<analysis, analysis_cache, th>>
       ELSE /\ AnalyzeFileComplete(t, f, "analyze_complete")
            /\ http' = IF analysis'.outcome = "lsp" THEN http
                       ELSE IF analysis'.outcome # "returned"
                       THEN ErrorResponse("analyze", f, analysis'.outcome)
                       ELSE IF Await("MarkdownStructure") # "value"
                       THEN ErrorResponse("analyze", f, Await("MarkdownStructure"))
                       ELSE [NoHttp EXCEPT !.endpoint = "analyze", !.file = f,
                                           !.code = 200, !.status = "success",
                                           !.data = analysis']
    /\ UNCHANGED <<process, request_id, initialized, startResult, stdin, stdout,
                   answered, calls, refused, sdSteps, notes, codec, extractor, plugin>>

\* POST /batch-analyze: the patterns of the request and what they match in
\* the workspace (`self.workspace_path.glob(pattern)`, markdown suffixes)
PatternLists == {<<"*.md">>, <<"doc*.md">>, <<"doc*.md", "*.md">>}

Glob(pattern) ==
    IF pattern = "*.md" THEN {"doc.md", "note.md", "empty.md"} ELSE {"doc.md"}

Matched(patterns) == UNION {Glob(patterns[k]) : k \in 1..Len(patterns)}

\* batch_analyze_complete: the files whose analysis did not raise
BatchResults(patterns) == {f \in Matched(patterns) : Content(f) # << >>}

\* `await analyzer.batch_analyze_complete(request.patterns)`: the batch runs,
\* each file that raises is skipped, every other lands in the cache; then the
\* dictionary it returned is awaited.  On success the results are cut to
\* max_files and counted.
batch_analyze(t, patterns, max_files) ==
    /\ th[t].pc = "idle"
    /\ plugin.startup = "done"
    /\ plugin.analyzer
    /\ IF UseLsp(initialized)
       THEN /\ th' = [th EXCEPT ![t] = [pc |-> "open_document", op |-> "batch_analyze",
                                        call |-> 0]]
            /\ UNCHANGED <<analysis, analysis_cache, http>>
       ELSE /\ analysis_cache' = analysis_cache \cup BatchResults(patterns)
            /\ http' = IF Await("dict") # "value"
                       THEN [ErrorResponse("batch", "none", Await("dict"))
                                EXCEPT !.matched = Cardinality(BatchResults(patterns)),
                                       !.max_files = max_files]
                       ELSE [NoHttp EXCEPT !.endpoint = "batch", !.code = 200,
                                           !.status = "success",
                                           !.matched = Cardinality(BatchResults(patterns)),
                                           !.max_files = max_files,
                                           !.files_processed =
                                               Min(Cardinality(BatchResults(patterns)),
                                                   max_files)]
            /\ UNCHANGED <<analysis, th>>
    /\ UNCHANGED <<process, request_id, initialized, startResult, stdin, stdout,
                   answered, calls, refused, sdSteps, notes, codec, extractor, plugin>>

\* The service: the client is started and initialized once, the service
\* starts up when that is over, and files are analysed through the service
\* and directly.
NextService ==
    \/ \E t \in Threads : start_server(t)
    \/ \E t \in Threads : initialize(t)
    \/ \E i \in Ids : read_header(i)
    \/ \E t \in Threads : run_async_return(t)
    \/ \E t \in Threads : run_async_timeout(t)
    \/ ServerRespond
    \/ ServerExit
    \/ startup
    \/ \E t \in Threads, f \in Files : analyze_file_complete(t, f)
    \/ \E t \in Threads, f \in Files : analyze_complete(t, f)
    \/ \E t \in Threads, p \in PatternLists, n \in 1..MaxFiles : batch_analyze(t, p, n)

ServiceSpec == Init /\ [][NextService]_vars

\* ---- MarkdownContentExtractor._process_section_hierarchy ----
\* everything but the extractor, as constructed
NothingElse ==
    /\ process = "none"
    /\ request_id = 1
    /\ initialized = FALSE
    /\ startResult = "not_called"
    /\ stdin = << >>
    /\ stdout = << >>
    /\ answered = 0
    /\ calls = [i \in Ids |-> NoCall]
    /\ th = [t \in Threads |-> IdleThread]
    /\ refused = "none"
    /\ sdSteps = << >>
    /\ pushed = 0
    /\ text = << >>
    /\ written = << >>
    /\ decoded = NotDecoded
    /\ roundtrip = NotRead
    /\ plugin = NoPlugin
    /\ analysis_cache = {}
    /\ analysis = NoAnalysis
    /\ http = NoHttp

\* A section is known by its position in the flat list that
\* extract_sections_with_content built, in document order; `sections` holds
\* its level (the number of # of its header).  Each comes with an empty
\* list of subsections.
Levels == 1..MaxLevel

SectionLists == UNION {[1..n -> Levels] : n \in 0..MaxSections}

HierarchyInit ==
    /\ NothingElse
    /\ sections \in SectionLists
    /\ cursor = 0
    /\ stack = << >>
    /\ result = << >>
    /\ subsections = [k \in 1..Len(sections) |-> << >>]
    /\ lines = << >>
    /\ tableScan = NoTableScan
    /\ listScan = NoListScan

\* `stack[-1].level >= section.level`
\* (StackTopCoversStrictly: > in place of >=)
StackTopCoversStrictly(top_level, level) == top_level > level

StackTopCovers(top_level, level) == top_level >= level

\* `while stack and stack[-1].level >= section.level: stack.pop()`
RECURSIVE Popped(_, _)
Popped(st, level) ==
    IF st # << >> /\ StackTopCovers(sections[st[Len(st)]], level)
    THEN Popped(SubSeq(st, 1, Len(st) - 1), level)
    ELSE st

\* one turn of `for section in sections:`
process_section ==
    /\ cursor < Len(sections)
    /\ LET n == cursor + 1
           st == Popped(stack, sections[n])
       IN  /\ IF st # << >>
              THEN /\ subsections' = [subsections EXCEPT ![st[Len(st)]] = Append(@, n)]
                   /\ UNCHANGED result
              ELSE /\ result' = Append(result, n)
                   /\ UNCHANGED subsections
           /\ stack' = Append(st, n)
           /\ cursor' = n
    /\ UNCHANGED <<process, request_id, initialized, startResult, stdin, stdout,
                   answered, calls, th, refused, sdSteps, notes, codec, service,
                   sections, lines, tableScan, listScan>>

NextHierarchy == process_section

HierarchySpec == HierarchyInit /\ [][NextHierarchy]_vars

\* ---- _extract_complete_structure: tables and lists ----
\* A line of `content.split('\n')` is a table row (`^\s*\|.*\|`), an item of
\* an ordered list (`^\s*(\d+)\.\s+(.+)`), an item of an unordered list
\* (`^\s*[-*+]\s+(.+)`) or none of these; split gives at least one line.
LineKinds == {"table_row", "ordered", "unordered", "other"}

Contents == UNION {[1..n -> LineKinds] : n \in 1..MaxLines}

StructureInit ==
    /\ NothingElse
    /\ sections = << >>
    /\ cursor = 0
    /\ stack = << >>
    /\ result = << >>
    /\ subsections = << >>
    /\ lines \in Contents
    /\ tableScan = NoTableScan
    /\ listScan = NoListScan

IsTableRow(line) == line = "table_row"

IsListItem(line) == line \in {"ordered", "unordered"}

\* One turn of the loop over the lines that collects tables; i counts the
\* lines handled, so the line at hand has the 0-based index i.
table_line ==
    /\ tableScan.i < Len(lines)
    /\ LET i == tableScan.i
           line == lines[i + 1]
       IN  tableScan' =
              IF IsTableRow(line)
              THEN [tableScan EXCEPT
                       !.i = i + 1,
                       !.in_table = TRUE,
                       !.table_start = IF tableScan.in_table THEN @ ELSE i,
                       !.table_rows = Append(@, i + 1)]
              ELSE IF tableScan.in_table /\ tableScan.table_rows # << >>
              THEN [tableScan EXCEPT
                       !.i = i + 1,
                       !.in_table = FALSE,
                       !.table_rows = << >>,
                       !.tables = Append(@, [line_start |-> tableScan.table_start + 1,
                                             line_end |-> i,
                                             row_count |-> Len(tableScan.table_rows)])]
              ELSE [tableScan EXCEPT !.i = i + 1, !.in_table = FALSE]
    /\ UNCHANGED <<process, request_id, initialized, startResult, stdin, stdout,
                   answered, calls, th, refused, sdSteps, notes, codec, service,
                   sections, cursor, stack, result, subsections, lines, listScan>>

\* One turn of the loop that collects lists; it starts when the loop over
\* the tables is through.
list_line ==
    /\ tableScan.i = Len(lines)
    /\ listScan.i < Len(lines)
    /\ LET i == listScan.i
           line == lines[i + 1]
       IN  listScan' =
              IF IsListItem(line)
              THEN [listScan EXCEPT
                       !.i = i + 1,
                       !.in_list = TRUE,
                       !.list_start = IF listScan.in_list THEN @ ELSE i,
                       !.list_type = IF listScan.in_list THEN @ ELSE line,
                       !.list_items = Append(@, i + 1)]
              ELSE IF listScan.in_list /\ listScan.list_items # << >>
              THEN [listScan EXCEPT
                       !.i = i + 1,
                       !.in_list = FALSE,
                       !.list_type = "None",
                       !.list_items = << >>,
                       !.lists = Append(@, [line_start |-> listScan.list_start + 1,
                                            line_end |-> i,
                                            item_count |-> Len(listScan.list_items),
                                            type |-> listScan.list_type])]
              ELSE [listScan EXCEPT !.i = i + 1, !.in_list = FALSE, !.list_type = "None"]
    /\ UNCHANGED <<process, request_id, initialized, startResult, stdin, stdout,
                   answered, calls, th, refused, sdSteps, notes, codec, service,
                   sections, cursor, stack, result, subsections, lines, tableScan>>

NextStructure ==
    \/ table_line
    \/ list_line

StructureSpec == StructureInit /\ [][NextStructure]_vars

\* ---- what the claims speak of ----
Returned(i) == calls[i].caller = "returned"
TimedOut(i) == calls[i].caller = "timedout"
Reading(i) == calls[i].co \in {"header", "body"}
IsRequest(m, method) == m.kind = "request" /\ m.method = method
InitializeIds == {stdin[k].id : k \in {n \in 1..Len(stdin) : IsRequest(stdin[n], "initialize")}}

\* the body of the response to request i is taken from the stream in this step
TakesBody(i, kind) ==
    /\ stdout # << >>
    /\ Head(stdout) = [t |-> "B", f |-> i, kind |-> kind]
    /\ stdout' = Tail(stdout)

ResolvedWith(i, kind) ==
    calls'[i].co = "done" /\ calls'[i].ret = [kind |-> kind, id |-> i]

\* C1: with a live server and no call timing out, the step that takes the
\* response to a waiting call's request from the stream resolves that call
\* with it: the call gets the response carrying its own id.
C1_EachCallGetsItsOwnResponse ==
    [][\A i \in Ids :
          (/\ process = "alive"
           /\ \A j \in Ids : ~TimedOut(j)
           /\ calls[i].caller = "waiting"
           /\ TakesBody(i, "result"))
              => ResolvedWith(i, "result")]_vars

\* C2: every request whose coroutine has started reading is eventually
\* resolved: its coroutine does not stay pending forever.
C2_EveryRequestIsResolved ==
    \A i \in Ids : Reading(i) ~> (calls[i].co = "done")

\* C3: request ids are positive, the first is 1, they grow strictly in the
\* order of allocation, and two callers waiting at the same instant wait for
\* different ids.
C3_RequestIdsUniqueIncreasing ==
    /\ request_id >= 1
    /\ \A k \in 1..Len(Requests) : Requests[k].id >= 1 /\ Requests[k].id < request_id
    /\ Len(Requests) >= 1 => Requests[1].id = 1
    /\ \A k, n \in 1..Len(Requests) : k < n => Requests[k].id < Requests[n].id
    /\ \A t, u \in Threads :
          (t # u /\ th[t].pc = "wait" /\ th[u].pc = "wait") => th[t].call # th[u].call

\* two callers wait at the same instant, each for its own request
C3_TwoOutstanding ==
    /\ Len(Requests) >= 2
    /\ \E t, u \in Threads : t # u /\ th[t].pc = "wait" /\ th[u].pc = "wait"

\* C4: once a call has failed with Timeout its pending entry is gone (no
\* coroutine of it is still reading), and its late response is dropped: it
\* is not handed to any other call.
C4_TimeoutDiscardsEntry ==
    \A i \in Ids : TimedOut(i) =>
        /\ ~Reading(i)
        /\ \A j \in Ids \ {i} : calls[j].ret.id # i

\* C5: after a call has timed out the connection stays usable: the step that
\* takes the response to a later, waiting call from the stream resolves that
\* call with it.
C5_CallAfterTimeoutGetsOwnResponse ==
    [][\A i \in Ids :
          (/\ process = "alive"
           /\ \E j \in 1..(i - 1) : TimedOut(j)
           /\ calls[i].caller = "waiting"
           /\ \E kind \in {"result", "error"} : TakesBody(i, kind))
              => calls'[i].co = "done" /\ calls'[i].ret.id = i]_vars

\* C6: once the server process has exited, a pending call whose coroutine
\* ends while its caller waits ends with the connection-closed outcome and
\* with no other, no coroutine is blocked in its read (the read can return),
\* and nothing more is written to the server: no request gets through.
C6_CrashFailsPendingCalls ==
    /\ [][process = "exited" =>
             /\ \A i \in Ids :
                   (/\ calls[i].caller = "waiting"
                    /\ Reading(i)
                    /\ calls'[i].co = "done")
                       => calls'[i].ret.kind = "closed"
             /\ stdin' = stdin
             /\ request_id' = request_id]_vars
    /\ [](\A i \in Ids : (process = "exited" /\ Reading(i)) => ENABLED read_header(i))

\* a call that was pending when the server exited has returned connection-closed
C6_PendingCallClosed ==
    \E i \in Ids : Returned(i) /\ calls[i].ret.kind = "closed"

\* C7: no request other than initialize is written to the server before the
\* handshake has completed.
C7_NoCallBeforeReady ==
    \A k \in 1..Len(stdin) :
        (stdin[k].kind = "request" /\ stdin[k].method # "initialize") => stdin[k].ready

\* C8: initialized is true only if an initialize request has returned a
\* response without an error and the initialized notification was written
\* after that request.
C8_ReadyOnlyAfterHandshake ==
    initialized =>
        \E k, n \in 1..Len(stdin) :
            /\ k < n
            /\ IsRequest(stdin[k], "initialize")
            /\ Returned(stdin[k].id)
            /\ ~HasError(calls[stdin[k].id].ret)
            /\ stdin[n].kind = "notification" /\ stdin[n].method = "initialized"

\* initialize has come back with a failure, or has given up waiting, and the
\* client is not ready
C8_HandshakeFailed ==
    /\ ~initialized
    /\ \E i \in InitializeIds : TimedOut(i) \/ (Returned(i) /\ HasError(calls[i].ret))

\* C9: after an initialize that failed (error response) or timed out the
\* client is not Ready, the server process is not left running and no later
\* request is written.
C9_FailedInitializeTerminates ==
    \A i \in InitializeIds :
        (TimedOut(i) \/ (Returned(i) /\ HasError(calls[i].ret))) =>
            /\ ~initialized
            /\ process # "alive"
            /\ \A k \in 1..Len(Requests) : Requests[k].id <= i

\* C10: after start_server has reported failure no send_request gets through:
\* each is refused, no id is allocated and nothing is written.
C10_FailedStartIsTerminal ==
    startResult = "failed" =>
        /\ process # "alive"
        /\ stdin = << >>
        /\ request_id = 1
        /\ \A t \in Threads : th[t].pc = "idle"
        /\ \A i \in Ids : calls[i] = NoCall

\* a send_request was issued after the failed start, and refused
C10_RefusedAfterFailedStart == startResult = "failed" /\ refused = "failed"

\* ---- shutdown (C11, C12) ----
\* shutdown() has returned
ShutdownReturned ==
    /\ sdSteps # << >>
    /\ sdSteps[Len(sdSteps)] \in {"wait_returned", "returned"}

\* C11: the exit notification comes after the shutdown request, the wait
\* after the exit notification, the process is terminated only after a wait
\* at whose end it was still alive, and a shutdown() that has returned from a
\* server it found alive has sent the exit notification.
C11_ShutdownStepsInOrder ==
    /\ \A k \in 1..Len(sdSteps) :
          /\ sdSteps[k] = "exit_notification"
                => \E j \in 1..(k - 1) : sdSteps[j] = "shutdown_request"
          /\ sdSteps[k] \in {"wait_returned", "wait_expired"}
                => \E j \in 1..(k - 1) : sdSteps[j] = "exit_notification"
          /\ sdSteps[k] = "terminate"
                => \E j \in 1..(k - 1) : sdSteps[j] = "wait_expired"
    /\ ShutdownReturned => \E k \in 1..Len(sdSteps) : sdSteps[k] = "exit_notification"

\* C12: once shutdown() has started on a live server it eventually returns,
\* and the server process has exited by then.
C12_ShutdownTerminates ==
    (sdSteps # << >>) ~> (ShutdownReturned /\ process # "alive")

\* ---- the stream to and from the server (C13..C18) ----
\* C14: at most one read of the server's output is in progress at any time.
C14_SingleReader == Cardinality({i \in Ids : Reading(i)}) <= 1

\* C13: at most one writer is writing a frame to the server's stdin at any
\* time, and the two parts of a frame lie next to each other on the stream.
C13_WritesSerialized ==
    /\ Cardinality({t \in Threads : th[t].pc = "write"}) <= 1
    /\ \A k \in 1..(Len(stdin) - 1) :
          stdin[k].kind = "notification_begin" => stdin[k + 1].kind = "notification_end"

\* C15: a request of the server to the client that is taken from the stream
\* is answered: the step writes a response to the server's stdin.
C15_ServerRequestsAnswered ==
    [][(/\ stdout # << >>
        /\ Head(stdout).kind = "server_request"
        /\ stdout' = Tail(stdout))
           => /\ Len(stdin') = Len(stdin) + 1
              /\ stdin'[Len(stdin')].kind = "response"]_vars

\* C16: a step of send_notification leaves request_id and every call's entry
\* as they are and takes nothing from the server's output.
NotificationStep(t) ==
    /\ th'[t] # th[t]
    /\ th[t].op = "send_notification" \/ th'[t].op = "send_notification"

C17_MalformedFrameReported ==
    [][(/\ stdout # << >>
        /\ Head(stdout) = [t |-> "H", f |-> 0, kind |-> "hdr"]
        /\ stdout' = Tail(stdout))
           => \E i \in Ids :
                 /\ calls[i].co # "done"
                 /\ calls'[i].co = "done"
                 /\ calls'[i].ret.kind = "malformed"]_vars

\* C18: the step that takes the server's error response to a waiting call
\* from the stream resolves that call with the error object, and leaves the
\* process and the initialized flag as they are.
C18_ErrorResponseReachesCaller ==
    [][\A i \in Ids :
          (calls[i].caller = "waiting" /\ TakesBody(i, "error"))
              => /\ ResolvedWith(i, "error")
                 /\ process' = process
                 /\ initialized' = initialized]_vars

\* ---- the codec (C19, C20) ----
\* what the frame on the wire declares and what follows its blank line
DeclaredLength(s) ==
    ParseInt(SubSeq(s, Len(ContentLengthField) + 1, HeaderEnd(s) - 4))

BodyOf(s) == SubSeq(s, HeaderEnd(s) + 1, Len(s))

\* C19: in every frame written by send_request or send_notification the
\* number in the Content-Length header is the number of bytes of the UTF-8
\* encoding of the JSON body after the blank line.
C19_ContentLengthIsByteLength ==
    written # << >> => DeclaredLength(written) = Utf8Length(BodyOf(written))

\* a frame was written for params with text beyond ASCII
C19_NonAsciiWritten ==
    /\ written # << >>
    /\ \E k \in 1..Len(text) : text[k] > 127

\* C20: reading one response takes from the stream its header block and the
\* declared number of bytes of body, no more: the stream is then at the
\* first character of the next frame.
C20_DecodeConsumesDeclaredBytes ==
    decoded # NotDecoded =>
        /\ decoded.outcome = "response"
        /\ decoded.content_length = Utf8Length(ResponseJson(text))
        /\ decoded.chars = Len(TextRead(ServerFrame(ResponseJson(text))))

\* C21: a message whose frame is read back arrives as it was sent: the read
\* yields a message, and that message equals the one encoded, with or without
\* a further header line in the frame.
C21_FramingRoundTrips ==
    roundtrip # NotRead =>
        /\ roundtrip.outcome = "message"
        /\ roundtrip.got = roundtrip.m

AnalysableFiles == {f \in Files : PathExists(f) /\ Content(f) # << >>}

\* the client is not usable: never started, start failed, handshake failed or
\* timed out, or the server is gone
LspUnavailable == ~initialized \/ process # "alive"

\* C23: FixedMarkdownAnalyzer.initialize returns success whatever became of
\* the LSP server, and with the LSP unavailable the analysis of an analysable
\* file comes back complete, with an empty list of LSP symbols, not as an
\* exception.
C23_LspFailureDegradesGracefully ==
    /\ plugin.startup = "done" => plugin.analyzer_initialize = "True"
    /\ (LspUnavailable /\ analysis.file \in AnalysableFiles) =>
          /\ analysis.outcome = "returned"
          /\ analysis.raw_content
          /\ analysis.lsp_symbols = << >>

\* a file was analysed after start_server failed, and another state where one
\* was analysed after the handshake timed out or after the server died
C23_AnalysedWithoutLsp ==
    /\ plugin.startup = "done"
    /\ analysis.outcome = "returned"
    /\ \/ \E i \in InitializeIds : TimedOut(i) /\ process = "alive"
       \/ \E i \in InitializeIds : Returned(i) /\ process = "exited"

\* C24: after startup, POST /analyze for an existing file with content
\* answers "success" with the file's raw content, at least one paragraph, a
\* positive word count and the file's headers.
C24_AnalyzeReturnsContent ==
    (http.endpoint = "analyze" /\ http.file \in AnalysableFiles) =>
        /\ http.status = "success"
        /\ http.data.raw_content
        /\ http.data.paragraphs >= 1
        /\ http.data.word_count > 0
        /\ http.data.headers = HeaderBlocks(Content(http.file))

\* C25: the step that answers POST /analyze for a file that does not exist
\* answers with an error (404, or 200 with status "error") and leaves the
\* analysis cache and the LSP client as they were.
C25_MissingFileIsAnError ==
    [][(/\ http' # http
        /\ http'.endpoint = "analyze"
        /\ ~PathExists(http'.file))
           => /\ http'.status = "error"
              /\ http'.code \in {404, 200}
              /\ analysis_cache' = analysis_cache
              /\ UNCHANGED <<process, request_id, initialized, stdin, stdout, calls>>]_vars

\* POST /analyze was answered for the missing file while the cache held an analysis
C25_MissingFileAnswered ==
    /\ http.endpoint = "analyze"
    /\ http.file = "missing.md"
    /\ analysis_cache # {}

\* C26: POST /batch-analyze answers "success" and reports as processed the
\* analysable files its patterns match, at most max_files of them.
C26_BatchCountsFiles ==
    http.endpoint = "batch" =>
        /\ http.status = "success"
        /\ http.files_processed = Min(http.matched, http.max_files)

\* C28: a step of analyze_file_complete taken while the initialized flag is
\* false writes nothing to the server, leaves request_id as it is and, for a
\* file it can analyse, returns the analysis with no LSP symbols; taken while
\* the flag is true it turns to open_document before any request is made.
C28_LspOnlyWhenInitialized ==
    [][\A t \in Threads :
          (th[t].pc = "idle" /\ analysis' # analysis) =>
              /\ ~initialized =>
                    /\ stdin' = stdin
                    /\ request_id' = request_id
                    /\ th' = th
                    /\ analysis'.file \in AnalysableFiles =>
                          /\ analysis'.outcome = "returned"
                          /\ analysis'.lsp_symbols = << >>
              /\ (initialized /\ analysis'.file \in AnalysableFiles) =>
                    /\ request_id' = request_id
                    /\ \E u \in Threads : th'[u].pc = "open_document"]_vars

\* a file was analysed while the server was alive and the flag false
C28_AnalysedWithFlagFalse ==
    /\ analysis.outcome = "returned"
    /\ process = "alive"
    /\ ~initialized
    /\ stdin # << >>

\* ---- ids and rejected calls (C27) ----
\* C27: a send_request that is rejected because the process is missing or has
\* exited leaves request_id, the pipes, the calls and the initialized flag as
\* they were; a send_request that passes the check takes exactly one id,
\* also when its write fails; and request_id changes in no other step.
C27_RejectedSendChangesNothing ==
    [][/\ refused' # refused =>
             /\ ~ProcessRunning(process)
             /\ UNCHANGED <<process, request_id, initialized, stdin, stdout, calls, th>>
       /\ \A t \in Threads :
             (th[t].pc = "idle" /\ th'[t].pc = "wait") =>
                 /\ request_id' = request_id + 1
                 /\ th'[t].call = request_id
       /\ request_id' # request_id =>
             \E t \in Threads : th[t].pc = "idle" /\ th'[t].pc = "wait"]_vars

\* a write has failed after its id was taken, and a later call was rejected
C27_WriteFailedThenRejected ==
    /\ \E i \in Ids : calls[i].ret.kind = "writefail"
    /\ refused = "ok"

\* ---- the extractor (C29, C30) ----
\* the sections handled so far
Handled == 1..cursor

\* how often section k occurs in a list of positions
Occurrences(list, k) == Cardinality({j \in 1..Len(list) : list[j] = k})

\* how often it occurs in the forest: at the top or under a parent
Placements(k) ==
    Occurrences(result, k)
        + Cardinality({pj \in (1..Len(sections)) \X (1..Len(sections)) :
                          /\ pj[2] <= Len(subsections[pj[1]])
                          /\ subsections[pj[1]][pj[2]] = k})

Parents(k) == {p \in 1..Len(sections) : Occurrences(subsections[p], k) > 0}

Ascending(list) == \A i, j \in 1..Len(list) : i < j => list[i] < list[j]

\* the nearest section before k with a smaller level
Shallower(k) == {j \in 1..(k - 1) : sections[j] < sections[k]}

Nearest(k) == CHOOSE j \in Shallower(k) : \A i \in Shallower(k) : i <= j

\* C29: at every turn of the loop each section handled so far is in the
\* forest exactly once and no other is, siblings are in document order, a
\* subsection lies deeper than its parent, the parent is the nearest earlier
\* section of a smaller level (a section without one is at the top), and the
\* levels on the stack increase strictly.
C29_HierarchyIsAForest ==
    /\ \A k \in 1..Len(sections) : Placements(k) = IF k \in Handled THEN 1 ELSE 0
    /\ Ascending(result)
    /\ \A p \in 1..Len(sections) : Ascending(subsections[p])
    /\ \A k \in Handled : \A p \in Parents(k) : sections[k] > sections[p]
    /\ \A k \in Handled :
          IF Shallower(k) = {} THEN Occurrences(result, k) = 1
          ELSE Parents(k) = {Nearest(k)}
    /\ \A i, j \in 1..Len(stack) : i < j => sections[stack[i]] < sections[stack[j]]

\* the whole list is handled; two sections are at the top, one has two
\* subsections, and one lies two levels down
C29_DeepForestBuilt ==
    /\ cursor = Len(sections)
    /\ Len(result) >= 2
    /\ \E p \in 1..Len(sections) : Len(subsections[p]) >= 2
    /\ \E k \in 1..Len(sections) : \E p \in Parents(k) : Parents(p) # {}

\* the maximal runs of lines of a kind: first and last line, counted from 1
Runs(Of(_)) ==
    {ab \in (1..Len(lines)) \X (1..Len(lines)) :
        /\ ab[1] <= ab[2]
        /\ \A k \in ab[1]..ab[2] : Of(lines[k])
        /\ ab[1] = 1 \/ ~Of(lines[ab[1] - 1])
        /\ ab[2] = Len(lines) \/ ~Of(lines[ab[2] + 1])}

Spans(found) == {<<found[k].line_start, found[k].line_end>> : k \in 1..Len(found)}

\* C30: when both loops are through, the tables reported are the maximal
\* runs of table rows, one table for each, and the lists reported the
\* maximal runs of list items, one list for each.
C30_EveryRunIsReported ==
    (tableScan.i = Len(lines) /\ listScan.i = Len(lines)) =>
        /\ Spans(tableScan.tables) = Runs(IsTableRow)
        /\ Len(tableScan.tables) = Cardinality(Runs(IsTableRow))
        /\ Spans(listScan.lists) = Runs(IsListItem)
        /\ Len(listScan.lists) = Cardinality(Runs(IsListItem))
====
